---------------------------- MODULE Spec2Model ----------------------------
(***************************************************************************)
(* Model of the realtime translation relay:                                *)
(*   web_server.py            ReconnectManager, websocket_endpoint (the    *)
(*                            Connection Supervisor), the video drainer    *)
(*   web_translate_client.py  WebTranslateClient (Upstream Session Client) *)
(*   osc_manager.py           OSCManager mute callback slot                *)
(*                                                                         *)
(* All coroutines run on one asyncio event loop: the code between two      *)
(* suspension points (await on a socket, a queue, a timer) is one atomic   *)
(* step, and each action below is one such step.                           *)
(***************************************************************************)
EXTENDS Integers, Sequences, FiniteSets, TLC

(***************************************************************************)
(* Bounds of the model                                                     *)
(***************************************************************************)
MaxClients == 3     \* WebTranslateClient objects alive at a time
MaxQueue == 1       \* video frames the queue may hold
MaxSentinels == 3   \* sentinels the queue may hold
MaxMuteTasks == 2   \* scheduled, not yet started handle_mute_change tasks
MaxAttemptsRM == 11 \* attempt counter range of the stand-alone ReconnectManager
MaxTexts == 3       \* text events of a session
MaxSentences == 3   \* pieces a long text is built of
MaxTokens == 5      \* tokens a short text is built of
MaxPings == 2       \* heartbeat frames of a session

(***************************************************************************)
(* Program constants                                                       *)
(***************************************************************************)
MAX_LENGTH == 144
MAX_RECONNECT_ATTEMPTS == 5
INITIAL_RECONNECT_DELAY == 1
MAX_RECONNECT_DELAY == 30
RECONNECT_BACKOFF_FACTOR == 2
API_KEY_CLOSE_CODE == 1008

\* Python's None as an error code (getattr(e, 'code', None))
NoCode == 0

\* Codes should_reconnect lists as retryable besides the 1011 fast path
RetryableCodes == {1006, 1011, 1012, 1013, 1014, 1015}

\* Close codes the upstream transport is closed with in the session model
UpstreamCodes == {1000, 1006, 1011}

\* Error codes the stand-alone ReconnectManager is queried with
QueryCodes == {NoCode, 1000, 1001, 1005, 1006, 1007, 1008, 1011, 1012, 1013,
               1014, 1015, 1016}

ClientIds == 1..MaxClients

AudioPayloads == {"a1"}
VideoPayloads == {"", "v1"}       \* "" is the empty image payload
Sentinel == "None"                \* the None put on the video queue

\* The session.update control frames the client sends: target_language,
\* voice, audio_enabled ("None": the key is absent)
SessionUpdates == {<<"ja", "None", "None">>, <<"None", "Ethan", "False">>}

VARIABLES
    pc,                  \* position of websocket_endpoint
    heartbeat_task,      \* the task running send_heartbeat(websocket)
    api_key,             \* DASHSCOPE_API_KEY is set
    websocket_close_code,\* code of websocket.close() on the client leg, 0: not called
    websocket_active,
    client,              \* the Supervisor's client: 0 (None) or a client id
    target_language, voice, audio_enabled,  \* locals of websocket_endpoint
    osc_mute_control,
    reconnect_attempts,  \* reconnect_manager.reconnect_attempts
    delay,               \* local delay of the retry branch
    message_task, video_sender_task,
    video_queue,
    clients,             \* the WebTranslateClient objects, by id
    connecting,          \* the client create_and_connect_client is connecting, or 0
    mute_callback,       \* osc_manager._mute_callback: 0 or the client its closure holds
    mute_tasks,          \* handle_mute_change tasks created and not yet started
    wire,                \* frames handed to an upstream ws.send() in the last step
    classification,      \* what should_reconnect answered in the last step, "none": not called
    text_tasks,          \* websocket.send_json tasks on_text_received created, not yet run
    text_events,         \* texts the reader has passed to on_text_received, in order
    client_rx,           \* translation_text frames handed to the client connection, in order
    pings,               \* "ping" frames handed to the client connection so far
    osc_out,             \* osc_manager.send_text calls of the last step: text and ongoing
    line_breaks_enabled, \* osc_manager._line_breaks_enabled
    osc_text,            \* the text a caller passes to osc_manager.send_text
    chatbox,             \* the "/chatbox/input" message sent: whether sent, and its text
    split_res,           \* what _split_confirmed_unconfirmed(osc_text) returned
    newlined,            \* what _insert_newlines_after_sentence_enders(osc_text) returned
    formatted,           \* what _format_text_for_chatbox(osc_text) returned
    rm_attempts,         \* reconnect_attempts of a stand-alone ReconnectManager
    rm_op, rm_code,      \* the method last called on it and the error_code passed
    rm_should, rm_delay  \* what should_reconnect and get_reconnect_delay last returned

sessionVars == <<pc, heartbeat_task, api_key, websocket_close_code, websocket_active,
                 client, target_language, voice, audio_enabled, osc_mute_control,
                 reconnect_attempts, delay, message_task, video_sender_task,
                 video_queue, clients, connecting, mute_callback, mute_tasks, wire,
                 classification>>
downVars == <<text_tasks, text_events, client_rx, pings, osc_out>>
rmVars == <<rm_attempts, rm_op, rm_code, rm_should, rm_delay>>
\* what the steps of the Supervisor, the drainer and the mute bridge leave alone
unitVars == <<split_res, newlined, formatted>>
fmtVars == <<line_breaks_enabled, osc_text, chatbox, unitVars>>
offVars == <<rmVars, downVars, fmtVars>>
vars == <<sessionVars, rmVars, downVars, fmtVars>>

(***************************************************************************)
(* ReconnectManager (web_server.py 38-82)                                  *)
(***************************************************************************)
Min(a, b) == IF a < b THEN a ELSE b

RECURSIVE Pow(_, _)
Pow(b, n) == IF n = 0 THEN 1 ELSE b * Pow(b, n - 1)

should_reconnect_off_by_one(attempts, error_code) ==
    IF attempts > MAX_RECONNECT_ATTEMPTS THEN FALSE
    ELSE IF error_code = 1011 THEN TRUE
    ELSE IF error_code \in RetryableCodes THEN TRUE
    ELSE FALSE

should_reconnect(attempts, error_code) ==
    IF attempts >= MAX_RECONNECT_ATTEMPTS THEN FALSE
    ELSE IF error_code = 1011 THEN TRUE
    ELSE IF error_code \in RetryableCodes THEN TRUE
    ELSE FALSE

get_reconnect_delay_uncapped(attempts, error_code) ==
    IF error_code = 1011 THEN 0
    ELSE INITIAL_RECONNECT_DELAY * Pow(RECONNECT_BACKOFF_FACTOR, attempts)

get_reconnect_delay(attempts, error_code) ==
    IF error_code = 1011 THEN 0
    ELSE Min(INITIAL_RECONNECT_DELAY * Pow(RECONNECT_BACKOFF_FACTOR, attempts),
             MAX_RECONNECT_DELAY)

increment_attempts_twice(attempts) == attempts + 2

increment_attempts(attempts) == attempts + 1

\* a reset() that leaves one attempt counted
reset_to_one == increment_attempts(0)

reset == 0


(***************************************************************************)
(* WebTranslateClient (web_translate_client.py)                            *)
(***************************************************************************)
Truthy(x) == x \notin {"None", "False", ""}

\* A client id not in use yet
NoClient == [is_connected |-> FALSE, is_processing_audio |-> TRUE,
             target_language |-> "en", voice |-> "Cherry",
             audio_enabled |-> "True", ws |-> "none", code |-> NoCode]

\* __init__ followed by the first half of connect(): the transport is open
\* and the client marked connected, configure_session() still to come
\* a client object that starts with audio forwarding suspended
NewClient_suspended(lang, v, ae) ==
    [is_connected |-> TRUE, is_processing_audio |-> FALSE,
     target_language |-> lang,
     voice |-> IF Truthy(ae) THEN v ELSE "Cherry",
     audio_enabled |-> ae, ws |-> "open", code |-> NoCode]

NewClient(lang, v, ae) ==
    [is_connected |-> TRUE, is_processing_audio |-> TRUE,
     target_language |-> lang,
     voice |-> IF Truthy(ae) THEN v ELSE "Cherry",
     audio_enabled |-> ae, ws |-> "open", code |-> NoCode]

\* The session.update event of configure_session / update_session
ConfigMessage(c, cl) ==
    [cl |-> c, type |-> "session.update",
     modalities |-> IF Truthy(cl.audio_enabled) THEN "text+audio" ELSE "text",
     voice |-> IF Truthy(cl.audio_enabled) /\ Truthy(cl.voice) THEN cl.voice ELSE "None",
     language |-> cl.target_language]

AudioMessage(c, data) == [cl |-> c, type |-> "input_audio_buffer.append", audio |-> data]

ImageMessage(c, data) == [cl |-> c, type |-> "input_image_buffer.append", image |-> data]

Silence == "silence3s"

\* update_session that stores what it is given, None included
update_session_fields_overwrites(cl, lang, v, ae) ==
    [cl EXCEPT !.target_language = lang, !.voice = v, !.audio_enabled = ae]

\* update_session: the fields given replace the client's, the others stay
update_session_fields(cl, lang, v, ae) ==
    [cl EXCEPT !.target_language = IF lang # "None" THEN lang ELSE @,
               !.voice = IF v # "None" THEN v ELSE @,
               !.audio_enabled = IF ae # "None" THEN ae ELSE @]

\* send_audio_chunk up to its ws.send: does the chunk reach ws.send?
send_audio_chunk_ignores_pause(cl) == cl.is_connected

send_audio_chunk_sends(cl) == cl.is_connected /\ cl.is_processing_audio

\* pause_audio_processing: does it act (flip the flag and send silence)?
pause_acts_always(cl) == TRUE

pause_acts(cl) == cl.is_processing_audio

\* _send_silence: does the block reach ws.send?
send_silence_sends(cl) == cl.is_connected /\ cl.ws # "none"

\* close() that forgets to clear the flag
close_keeps_flag(cl) == [cl EXCEPT !.ws = "closed", !.code = NoCode]

\* close(): marked disconnected, transport closed (code: the close code the
\* peer sent, kept while ws = "peer_closed")
close(cl) == [cl EXCEPT !.is_connected = FALSE, !.ws = "closed", !.code = NoCode]

(***************************************************************************)
(* Initial state: websocket_endpoint is called with the default query      *)
(* parameters, the API key set or not, mute control enabled or not.        *)
(***************************************************************************)
RMInit ==
    /\ rm_attempts = 0
    /\ rm_op = "__init__"
    /\ rm_code = NoCode
    /\ rm_should = FALSE
    /\ rm_delay = 0

SessionInit ==
    /\ pc = "accept"
    /\ heartbeat_task = "none"
    /\ api_key \in BOOLEAN
    /\ websocket_close_code = 0
    /\ websocket_active = TRUE
    /\ client = 0
    /\ target_language = "en"
    /\ voice = "Cherry"
    /\ audio_enabled = "True"
    /\ osc_mute_control \in BOOLEAN
    /\ reconnect_attempts = 0
    /\ delay = 0
    /\ message_task = "none"
    /\ video_sender_task = "none"
    /\ video_queue = <<>>
    /\ clients = [c \in ClientIds |-> NoClient]
    /\ connecting = 0
    /\ mute_callback = 0
    /\ mute_tasks = <<>>
    /\ wire = <<>>
    /\ classification = "none"

DownInit ==
    /\ text_tasks = <<>>
    /\ text_events = <<>>
    /\ client_rx = <<>>
    /\ pings = 0
    /\ osc_out = <<>>

(***************************************************************************)
(* OSCManager: the text sent to the chat box (osc_manager.py 125-313).     *)
(* A text is a sequence of characters. The texts considered are built of   *)
(* letters, blanks, line feeds and the marks ".", "!", ",", "..." and the   *)
(* CJK ellipsis: they hold no carriage return and no square bracket, so    *)
(* the normalisation of line ends (241) and the protection of bracketed    *)
(* segments (244-253) find nothing to act on.                              *)
(***************************************************************************)
Whitespace == {" ", "\n"}

\* SENTENCE_ENDERS (140-147), the ones that occur in the texts considered;
\* "..." is found where its first "." is
SENTENCE_ENDERS == {".", "?", "!", ",", "U2026"}

MinOf(S) == CHOOSE i \in S : \A j \in S : i <= j
MaxOf(S) == CHOOSE i \in S : \A j \in S : i >= j

\* text[from:] with 1-based from
From(text, from) == SubSeq(text, from, Len(text))

\* the first position from i on that holds no whitespace, Len(text) + 1 when
\* only whitespace follows
after_whitespace(text, i) ==
    CHOOSE k \in i..(Len(text) + 1) :
        /\ \A j \in i..(k - 1) : text[j] \in Whitespace
        /\ (k = Len(text) + 1 \/ text[k] \notin Whitespace)

\* the last position that holds no whitespace, 0 when there is none
before_whitespace(text) ==
    CHOOSE k \in 0..Len(text) :
        /\ (k = 0 \/ text[k] \notin Whitespace)
        /\ \A j \in (k + 1)..Len(text) : text[j] \in Whitespace

lstrip(text) == From(text, after_whitespace(text, 1))

rstrip(text) == SubSeq(text, 1, before_whitespace(text))

strip(text) == lstrip(rstrip(text))

\* the position of the first sentence ender (149-154), 0: there is none
first_sentence_end(text) ==
    IF \A i \in 1..Len(text) : text[i] \notin SENTENCE_ENDERS THEN 0
    ELSE CHOOSE i \in 1..Len(text) :
            /\ text[i] \in SENTENCE_ENDERS
            /\ \A j \in 1..(i - 1) : text[j] \notin SENTENCE_ENDERS

\* _truncate_text whose hard cut keeps one character too many
RECURSIVE truncate_text_cut_off_by_one(_, _)
truncate_text_cut_off_by_one(text, max_length) ==
    IF Len(text) <= max_length THEN text
    ELSE IF first_sentence_end(text) # 0
         THEN truncate_text_cut_off_by_one(
                  lstrip(From(text, first_sentence_end(text) + 1)), max_length)
         ELSE From(text, Len(text) - max_length)

\* _truncate_text (125-166): while the text is too long, drop its first
\* sentence and the blanks after it; with no ender left, keep the last
\* max_length characters
RECURSIVE truncate_text(_, _)
truncate_text(text, max_length) ==
    IF Len(text) <= max_length THEN text
    ELSE IF first_sentence_end(text) # 0
         THEN truncate_text(lstrip(From(text, first_sentence_end(text) + 1)),
                            max_length)
         ELSE From(text, Len(text) - max_length + 1)

\* re.sub(r"([。！？!?…])(?!\n)\s*", r"\1\n", text) (180)
RECURSIVE sub_marks(_)
sub_marks(text) ==
    LET M == {i \in 1..Len(text) :
                /\ text[i] \in {"!", "?", "U2026"}
                /\ ~(i < Len(text) /\ text[i + 1] = "\n")}
    IN  IF M = {} THEN text
        ELSE SubSeq(text, 1, MinOf(M)) \o <<"\n">>
                \o sub_marks(From(text, after_whitespace(text, MinOf(M) + 1)))

\* the characters after which a "." counts as the end of a sentence (184)
Closers == {"\"", "'", ")", "]", "}"}

\* the "." rule without its lookbehind
RECURSIVE sub_periods_without_lookbehind(_)
sub_periods_without_lookbehind(text) ==
    LET M == {i \in 1..Len(text) :
                /\ text[i] = "."
                /\ (i = Len(text) \/ text[i + 1] \in Whitespace \cup Closers)
                /\ ~(i < Len(text) /\ text[i + 1] = "\n")}
    IN  IF M = {} THEN text
        ELSE SubSeq(text, 1, MinOf(M)) \o <<"\n">>
                \o sub_periods_without_lookbehind(
                       From(text, after_whitespace(text, MinOf(M) + 1)))

\* re.sub of the "." heuristic (183-188): a "." not after a ".", before
\* whitespace, the end or a closer, and not before a line break
RECURSIVE sub_periods(_)
sub_periods(text) ==
    LET M == {i \in 1..Len(text) :
                /\ text[i] = "."
                /\ ~(i > 1 /\ text[i - 1] = ".")
                /\ (i = Len(text) \/ text[i + 1] \in Whitespace \cup Closers)
                /\ ~(i < Len(text) /\ text[i + 1] = "\n")}
    IN  IF M = {} THEN text
        ELSE SubSeq(text, 1, MinOf(M)) \o <<"\n">>
                \o sub_periods(From(text, after_whitespace(text, MinOf(M) + 1)))

\* _insert_newlines_after_sentence_enders (168-191)
insert_newlines_after_sentence_enders(text) ==
    IF text = <<>> THEN text ELSE sub_periods(sub_marks(text))

\* the two delimiters between the confirmed and the unconfirmed part;
\* "U2026" is the one character HORIZONTAL ELLIPSIS
Dots == <<".", ".", ".">>
CJKEllipsis == <<"U2026", "U2026">>

\* text.rfind(delim), 0: not found
rfind(text, delim) ==
    LET P == {i \in 1..(Len(text) - Len(delim) + 1) :
                SubSeq(text, i, i + Len(delim) - 1) = delim}
    IN  IF P = {} THEN 0 ELSE MaxOf(P)

\* find_last_delim (207-215): the last occurrence of delim when text other
\* than whitespace stands on both sides of it, else 0
find_last_delim(text, delim) ==
    LET idx == rfind(text, delim)
    IN  IF idx = 0 THEN 0
        ELSE IF /\ strip(SubSeq(text, 1, idx - 1)) # <<>>
                /\ strip(From(text, idx + Len(delim))) # <<>>
             THEN idx ELSE 0

\* lines 217-219: "……" is looked for whenever find_last_delim("...") gave -1
second_delim(text) == find_last_delim(text, CJKEllipsis)

NoSplit == [state |-> "none", confirmed |-> <<>>, delim |-> <<>>, unconfirmed |-> <<>>]

\* _split_confirmed_unconfirmed (193-226)
split_confirmed_unconfirmed(text) ==
    IF text = <<>> THEN NoSplit
    ELSE LET first == find_last_delim(text, Dots)
             idx == IF first # 0 THEN first ELSE second_delim(text)
             delim == IF first # 0 THEN Dots ELSE CJKEllipsis
         IN  IF idx = 0 THEN NoSplit
             ELSE [state |-> "split",
                   confirmed |-> rstrip(SubSeq(text, 1, idx - 1)),
                   delim |-> delim,
                   unconfirmed |-> strip(From(text, idx + Len(delim)))]

\* re.sub(r"\s+", " ", text): every run of whitespace becomes one blank
NotInRun(r) == ~r.in_run

\* the unconfirmed part left as it is
collapse_whitespace_not(text) == text

collapse_whitespace(text) ==
    LET tagged == [i \in 1..Len(text) |->
                      [ch |-> IF text[i] \in Whitespace THEN " " ELSE text[i],
                       in_run |-> /\ i > 1
                                  /\ text[i] \in Whitespace
                                  /\ text[i - 1] \in Whitespace]]
        kept == SelectSeq(tagged, NotInRun)
    IN  [k \in 1..Len(kept) |-> kept[k].ch]

\* _format_text_for_chatbox (228-283) with _split_confirmed_unconfirmed
\* (193-226): a line break after each sentence of the confirmed part, the
\* delimiter at its end, the unconfirmed part on a line of its own
format_text_for_chatbox(text) ==
    IF text = <<>> THEN text
    ELSE LET split_result == split_confirmed_unconfirmed(text) IN
         IF split_result.state = "none" THEN insert_newlines_after_sentence_enders(text)
         ELSE LET confirmed_formatted ==
                      rstrip(insert_newlines_after_sentence_enders(split_result.confirmed))
                  unconfirmed_single_line ==
                      strip(collapse_whitespace(split_result.unconfirmed))
              IN  IF confirmed_formatted = <<>> THEN unconfirmed_single_line
                  ELSE IF unconfirmed_single_line = <<>> THEN confirmed_formatted
                  ELSE confirmed_formatted \o split_result.delim \o <<"\n">>
                          \o unconfirmed_single_line

\* the text send_text puts into the "/chatbox/input" message (297-308)
send_text(text, line_breaks) ==
    truncate_text(IF line_breaks THEN format_text_for_chatbox(text) ELSE text,
                  MAX_LENGTH)

\* The sentences the texts are built of: a number of letters and what
\* follows them
Pieces ==
    {[len |-> 2, end |-> <<".", " ">>],
     [len |-> 72, end |-> <<".", " ">>],
     [len |-> 72, end |-> <<"!", " ">>],
     [len |-> 72, end |-> <<",", " ">>],
     [len |-> 1, end |-> <<".", ".", ".", " ">>],
     [len |-> MAX_LENGTH - 1, end |-> <<".">>],
     [len |-> MAX_LENGTH - 1, end |-> <<".", " ">>],
     [len |-> MAX_LENGTH + 1, end |-> <<".">>],
     [len |-> MAX_LENGTH + 1, end |-> <<>>]}

\* the i-th sentence of a text is written in a letter of its own
Letter(i) == IF i % 2 = 1 THEN "a" ELSE "b"

RECURSIVE Build(_, _)
Build(ps, i) ==
    IF i > Len(ps) THEN <<>>
    ELSE [k \in 1..ps[i].len |-> Letter(i)] \o ps[i].end \o Build(ps, i + 1)

\* the texts passed to send_text
Inputs == {Build(ps, 1) : ps \in UNION {[1..n -> Pieces] : n \in 1..MaxSentences}}

\* The short texts the formatting functions are applied to: up to
\* MaxTokens of these, one after the other
Tokens == {<<"A">>, <<".">>, <<"!">>, <<" ">>, <<"\n">>, Dots, CJKEllipsis}

RECURSIVE Concat(_, _)
Concat(ts, i) == IF i > Len(ts) THEN <<>> ELSE ts[i] \o Concat(ts, i + 1)

ShortTexts == {Concat(ts, 1) : ts \in UNION {[1..n -> Tokens] : n \in 0..MaxTokens}}

Uncalled == [state |-> "uncalled", confirmed |-> <<>>, delim |-> <<>>, unconfirmed |-> <<>>]
NoText == [done |-> FALSE, text |-> <<>>]

UnitInit ==
    /\ split_res = Uncalled
    /\ newlined = NoText
    /\ formatted = NoText

FmtInit ==
    /\ line_breaks_enabled = FALSE
    /\ osc_text = <<>>
    /\ chatbox = [sent |-> FALSE, text |-> <<>>]
    /\ UnitInit

Init == SessionInit /\ RMInit /\ DownInit /\ FmtInit

\* a caller is about to pass one of the texts to send_text
InitFormat ==
    /\ SessionInit /\ RMInit /\ DownInit
    /\ api_key /\ osc_mute_control
    /\ line_breaks_enabled = FALSE
    /\ osc_text \in Inputs
    /\ chatbox = [sent |-> FALSE, text |-> <<>>]
    /\ UnitInit

\* set_line_breaks_enabled (120-123)
set_line_breaks_enabled(enabled) ==
    /\ ~chatbox.sent
    /\ line_breaks_enabled' = enabled
    /\ UNCHANGED <<osc_text, chatbox, unitVars>>
    /\ UNCHANGED <<sessionVars, rmVars, downVars>>

\* send_text (285-313) with sending enabled
SendTextOSC ==
    /\ ~chatbox.sent
    /\ chatbox' = [sent |-> TRUE, text |-> send_text(osc_text, line_breaks_enabled)]
    /\ UNCHANGED <<osc_text, line_breaks_enabled, unitVars>>
    /\ UNCHANGED <<sessionVars, rmVars, downVars>>

OscManager == (\E enabled \in BOOLEAN : set_line_breaks_enabled(enabled)) \/ SendTextOSC

SpecFormat == InitFormat /\ [][OscManager]_vars

(***************************************************************************)
(* The formatting functions applied to a short text, one after the other.  *)
(***************************************************************************)
InitShort ==
    /\ SessionInit /\ RMInit /\ DownInit
    /\ api_key /\ osc_mute_control
    /\ line_breaks_enabled = TRUE
    /\ osc_text \in ShortTexts
    /\ chatbox = [sent |-> FALSE, text |-> <<>>]
    /\ UnitInit

SplitText ==
    /\ split_res.state = "uncalled"
    /\ split_res' = split_confirmed_unconfirmed(osc_text)
    /\ UNCHANGED <<line_breaks_enabled, osc_text, chatbox, newlined, formatted>>
    /\ UNCHANGED <<sessionVars, rmVars, downVars>>

InsertNewlines ==
    /\ split_res.state # "uncalled" /\ ~newlined.done
    /\ newlined' = [done |-> TRUE,
                    text |-> insert_newlines_after_sentence_enders(osc_text)]
    /\ UNCHANGED <<line_breaks_enabled, osc_text, chatbox, split_res, formatted>>
    /\ UNCHANGED <<sessionVars, rmVars, downVars>>

FormatText ==
    /\ newlined.done /\ ~formatted.done
    /\ formatted' = [done |-> TRUE, text |-> format_text_for_chatbox(osc_text)]
    /\ UNCHANGED <<line_breaks_enabled, osc_text, chatbox, split_res, newlined>>
    /\ UNCHANGED <<sessionVars, rmVars, downVars>>

Formatter == SplitText \/ InsertNewlines \/ FormatText

SpecShort == InitShort /\ [][Formatter]_vars


(***************************************************************************)
(* Client objects and references. A WebTranslateClient lives as long as    *)
(* something refers to it: the Supervisor's local client, the closure of   *)
(* the registered mute callback, the closure of a scheduled handler task,  *)
(* or create_and_connect_client while it connects. An object nothing       *)
(* refers to is gone, and its id is free for the next object.              *)
(***************************************************************************)
Refs(cl, cb, tasks, conn) ==
    ({cl, cb, conn} \cup {tasks[i].cl : i \in DOMAIN tasks}) \ {0}

Collect(cls, refs) == [c \in ClientIds |-> IF c \in refs THEN cls[c] ELSE NoClient]

IsFree(c) == clients[c].ws = "none"

FreeId == CHOOSE c \in ClientIds : IsFree(c) /\ \A d \in ClientIds : IsFree(d) => c <= d

(***************************************************************************)
(* websocket_endpoint: the except branch (307-337) and finally (339-357)   *)
(***************************************************************************)
\* Task.cancel() on a task that is not done
Cancel_leaves_running(task) == task

Cancel(task) == IF task = "running" THEN "cancelled" ELSE task

\* variables the except branch and the finally block write
supVars == <<pc, heartbeat_task, websocket_active, reconnect_attempts, delay, message_task,
             video_sender_task, video_queue, clients, mute_callback, client,
             connecting>>

\* Exceptions as the except branch sees them: the code attribute (NoCode when
\* the exception has none) and whether str(e.args[0]) contains "1011"
Exc(code, has1011) == [code |-> code, has1011 |-> has1011]

TimeoutError == Exc(NoCode, FALSE)

ConnectionClosed(code) == Exc(code, code = 1011)

ConnectErrors == {Exc(NoCode, FALSE), Exc(NoCode, TRUE), Exc(1006, FALSE)}

\* lines 310-314
error_code_of(e) == IF e.has1011 THEN 1011 ELSE e.code

Sentinels(q) == SelectSeq(q, LAMBDA f : f = Sentinel)

VideoFrames(q) == SelectSeq(q, LAMBDA f : f # Sentinel)

\* osc_manager.clear_mute_callback(): the slot afterwards (cb: the slot before)
clear_mute_callback_forgets(cb) == cb

clear_mute_callback(cb) == 0

\* lines 339-357; cls: the client objects as the step has left them so far
Finally(cls) ==
    /\ mute_callback' = clear_mute_callback(mute_callback)
    /\ heartbeat_task' = Cancel(heartbeat_task)
    /\ message_task' = Cancel(message_task)
    /\ video_sender_task' = Cancel(video_sender_task)
    /\ clients' = Collect(IF client # 0 THEN [cls EXCEPT ![client] = close(@)] ELSE cls,
                          Refs(client, 0, mute_tasks, 0))
    /\ connecting' = 0
    /\ pc' = "done"

\* lines 317-318: the delay the retry branch computes, from the counter as
\* it is when the except branch is entered
retry_delay_before_increment(attempts, error_code) ==
    get_reconnect_delay(attempts, error_code)

retry_delay(attempts, error_code) ==
    get_reconnect_delay(increment_attempts(attempts), error_code)

\* the heartbeat task after the cleanup of a retry (320-328): the cleanup
\* names message_task, video_sender_task and client only
heartbeat_after_retry_cancelled(task) == Cancel(task)

heartbeat_after_retry(task) == task

\* lines 316-333, up to the first suspension (client.close() or the sleep)
Retry(error_code, cls) ==
    /\ classification' = "retry"
    /\ reconnect_attempts' = increment_attempts(reconnect_attempts)
    /\ delay' = retry_delay(reconnect_attempts, error_code)
    /\ message_task' = Cancel(message_task)
    /\ heartbeat_task' = heartbeat_after_retry(heartbeat_task)
    /\ IF video_sender_task # "none"
         THEN /\ Len(Sentinels(video_queue)) < MaxSentinels
              /\ video_queue' = Append(video_queue, Sentinel)
              /\ video_sender_task' = Cancel(video_sender_task)
         ELSE UNCHANGED <<video_queue, video_sender_task>>
    /\ clients' = Collect(IF client # 0 THEN [cls EXCEPT ![client] = close(@)] ELSE cls,
                          Refs(client, mute_callback, mute_tasks, 0))
    /\ connecting' = 0
    /\ pc' = IF client # 0 THEN "closing"
             ELSE IF delay' > 0 THEN "backoff" ELSE "connect"
    /\ UNCHANGED <<websocket_active, mute_callback, client>>

\* lines 334-337 and the finally block they fall into
GiveUp(cls) ==
    /\ classification' = "give_up"
    /\ websocket_active' = FALSE
    /\ Finally(cls)
    /\ UNCHANGED <<reconnect_attempts, delay, video_queue, client>>

HandleException(e, cls) ==
    IF should_reconnect(reconnect_attempts, error_code_of(e))
      THEN Retry(error_code_of(e), cls)
      ELSE GiveUp(cls)

(***************************************************************************)
(* websocket_endpoint: start and (re)connection (171-196, 216-243)         *)
(***************************************************************************)
Accept ==
    /\ pc = "accept"
    /\ IF api_key
         THEN /\ pc' = "connect"
              /\ heartbeat_task' = "running"
              /\ UNCHANGED websocket_close_code
         ELSE /\ pc' = "done"
              /\ websocket_close_code' = API_KEY_CLOSE_CODE
              /\ UNCHANGED heartbeat_task
    /\ wire' = <<>>
    /\ UNCHANGED <<api_key, websocket_active, client, target_language,
                   voice, audio_enabled, osc_mute_control, reconnect_attempts,
                   delay, message_task, video_sender_task, video_queue, clients,
                   connecting, mute_callback, mute_tasks>>
    /\ classification' = "none"
    /\ UNCHANGED offVars

\* create_and_connect_client: websockets.connect raises
ConnectFail(e) ==
    /\ pc = "connect" /\ websocket_active /\ client = 0
    /\ HandleException(e, clients)
    /\ wire' = <<>>
    /\ UNCHANGED <<api_key, websocket_close_code, target_language, voice,
                   audio_enabled, osc_mute_control, mute_tasks>>
    /\ UNCHANGED offVars

\* create_and_connect_client: the object is built from the endpoint's locals,
\* websockets.connect succeeds, configure_session hands its event to ws.send
ConnectOpen ==
    /\ pc = "connect" /\ websocket_active /\ client = 0
    /\ \E c \in ClientIds : IsFree(c)
    /\ connecting' = FreeId
    /\ clients' = [clients EXCEPT ![FreeId] =
                       NewClient(target_language, voice, audio_enabled)]
    /\ wire' = <<ConfigMessage(FreeId, clients'[FreeId])>>
    /\ pc' = "configuring"
    /\ UNCHANGED <<api_key, websocket_close_code, websocket_active, client,
                   target_language, voice, audio_enabled, osc_mute_control,
                   reconnect_attempts, delay, message_task, video_sender_task,
                   video_queue, mute_callback, mute_tasks>>
    /\ classification' = "none"
    /\ UNCHANGED <<heartbeat_task, offVars>>

\* connect() returns: the mute callback is set, the reader and the drainer
\* are started, the reconnect state is reset (124, 237-242)
ConnectDone ==
    /\ pc = "configuring"
    /\ client' = connecting
    /\ mute_callback' = connecting
    /\ connecting' = 0
    /\ clients' = Collect(clients, Refs(connecting, connecting, mute_tasks, 0))
    /\ message_task' = "running"
    /\ video_sender_task' = "running"
    /\ reconnect_attempts' = reset
    /\ pc' = "recv"
    /\ wire' = <<>>
    /\ UNCHANGED <<api_key, websocket_close_code, websocket_active,
                   target_language, voice, audio_enabled, osc_mute_control, delay,
                   video_queue, mute_tasks>>
    /\ classification' = "none"
    /\ UNCHANGED <<heartbeat_task, offVars>>

\* configure_session's ws.send raises: connect() clears the flag and re-raises
ConfigureFail(code) ==
    /\ pc = "configuring"
    /\ HandleException(ConnectionClosed(code),
                       [clients EXCEPT ![connecting].is_connected = FALSE,
                                       ![connecting].ws = "peer_closed",
                                       ![connecting].code = code])
    /\ wire' = <<>>
    /\ UNCHANGED <<api_key, websocket_close_code, target_language, voice,
                   audio_enabled, osc_mute_control, mute_tasks>>
    /\ UNCHANGED offVars

\* client.close() of the retry branch returns: client = None, then the sleep
\* if delay > 0 (327-333); delay is not read again before it is next set
CloseReturned ==
    /\ pc = "closing"
    /\ client' = 0
    /\ clients' = Collect(clients, Refs(0, mute_callback, mute_tasks, 0))
    /\ pc' = IF delay > 0 THEN "backoff" ELSE "connect"
    /\ delay' = IF delay > 0 THEN delay ELSE 0
    /\ wire' = <<>>
    /\ UNCHANGED <<api_key, websocket_close_code, websocket_active,
                   target_language, voice, audio_enabled, osc_mute_control,
                   reconnect_attempts, message_task, video_sender_task,
                   video_queue, connecting, mute_callback, mute_tasks>>
    /\ classification' = "none"
    /\ UNCHANGED <<heartbeat_task, offVars>>

\* asyncio.sleep(delay) returns (332-333)
SleepDone ==
    /\ pc = "backoff"
    /\ pc' = "connect"
    /\ delay' = 0
    /\ wire' = <<>>
    /\ UNCHANGED <<api_key, websocket_close_code, websocket_active, client,
                   target_language, voice, audio_enabled, osc_mute_control,
                   reconnect_attempts, message_task, video_sender_task,
                   video_queue, clients, connecting, mute_callback, mute_tasks>>
    /\ classification' = "none"
    /\ UNCHANGED <<heartbeat_task, offVars>>


(***************************************************************************)
(* websocket_endpoint: the main receive loop (246-305)                     *)
(***************************************************************************)
\* what every receive step leaves alone
recvFixed == <<api_key, websocket_close_code, osc_mute_control, mute_tasks>>

\* binary frame with tag 0: client.send_audio_chunk(content); a ws.send on a
\* transport the peer has closed raises ConnectionClosed into the except branch
RecvAudio(data) ==
    /\ pc = "recv" /\ websocket_active
    /\ IF send_audio_chunk_sends(clients[client])
         THEN IF clients[client].ws = "open"
                THEN /\ wire' = <<AudioMessage(client, data)>>
                     /\ classification' = "none"
                     /\ UNCHANGED supVars
                ELSE /\ wire' = <<>>
                     /\ HandleException(ConnectionClosed(clients[client].code), clients)
         ELSE /\ wire' = <<>>
              /\ classification' = "none"
              /\ UNCHANGED supVars
    /\ UNCHANGED <<target_language, voice, audio_enabled>>
    /\ UNCHANGED recvFixed
    /\ UNCHANGED offVars

\* video_queue.put(item) on a queue holding q returns without waiting:
\* video_queue = asyncio.Queue() has no maxsize (189)
put_waits_when_nonempty(q) == q = <<>>

put_completes(q) == TRUE

\* binary frame with tag 1: await video_queue.put(content); a put that had to
\* wait would leave the Supervisor suspended in it (pc = "put")
RecvVideo(data) ==
    /\ pc = "recv" /\ websocket_active
    /\ Len(VideoFrames(video_queue)) < MaxQueue
    /\ IF put_completes(video_queue)
         THEN video_queue' = Append(video_queue, data) /\ pc' = "recv"
         ELSE UNCHANGED video_queue /\ pc' = "put"
    /\ wire' = <<>>
    /\ UNCHANGED <<websocket_active, reconnect_attempts, delay, message_task,
                   video_sender_task, clients, mute_callback, client, connecting>>
    /\ UNCHANGED <<target_language, voice, audio_enabled>>
    /\ UNCHANGED recvFixed
    /\ classification' = "none"
    /\ UNCHANGED <<heartbeat_task, offVars>>

\* frames the loop logs or skips: an empty binary frame, an unknown tag,
\* "pong", text that is no JSON object or has another type
IgnoredFrames == {"empty_bytes", "unknown_tag", "pong", "bad_json", "not_dict", "other_type"}

\* the same frames with the JSON parse outside the try of lines 277-297
RecvIgnored_escalates(kind) ==
    /\ pc = "recv" /\ websocket_active
    /\ kind \in IgnoredFrames
    /\ wire' = <<>>
    /\ IF kind = "bad_json"
         THEN HandleException(Exc(NoCode, FALSE), clients)
         ELSE classification' = "none" /\ UNCHANGED supVars
    /\ UNCHANGED <<target_language, voice, audio_enabled>>
    /\ UNCHANGED recvFixed
    /\ UNCHANGED offVars

RecvIgnored(kind) ==
    /\ pc = "recv" /\ websocket_active
    /\ kind \in IgnoredFrames
    /\ wire' = <<>>
    /\ UNCHANGED supVars
    /\ UNCHANGED <<target_language, voice, audio_enabled>>
    /\ UNCHANGED recvFixed
    /\ classification' = "none"
    /\ UNCHANGED <<heartbeat_task, offVars>>

\* text frame {type: 'session.update', ...} (281-291): payload.get() of an
\* absent key gives None; the locals voice and audio_enabled are overwritten,
\* the language goes to the local lang; an exception of update_session's
\* ws.send is swallowed by the except at 296
RecvSessionUpdate(lang, v, ae) ==
    /\ pc = "recv" /\ websocket_active
    /\ voice' = v
    /\ audio_enabled' = ae
    /\ UNCHANGED target_language
    /\ clients' = [clients EXCEPT ![client] = update_session_fields(@, lang, v, ae)]
    /\ wire' = IF clients[client].ws = "open"
                 THEN <<ConfigMessage(client, clients'[client])>>
                 ELSE <<>>
    /\ UNCHANGED <<pc, websocket_active, reconnect_attempts, delay, message_task,
                   video_sender_task, video_queue, mute_callback, client, connecting>>
    /\ UNCHANGED recvFixed
    /\ classification' = "none"
    /\ UNCHANGED <<heartbeat_task, offVars>>

\* a disconnect that reaches the loop as an exception with a close code
RecvDisconnect_as_error ==
    /\ pc = "recv" /\ websocket_active
    /\ HandleException(Exc(1006, FALSE), clients)
    /\ wire' = <<>>
    /\ UNCHANGED <<target_language, voice, audio_enabled>>
    /\ UNCHANGED recvFixed
    /\ UNCHANGED offVars

\* {'type': 'websocket.disconnect'}: leave both loops, run finally (299-302)
RecvDisconnect ==
    /\ pc = "recv" /\ websocket_active
    /\ websocket_active' = FALSE
    /\ Finally(clients)
    /\ wire' = <<>>
    /\ UNCHANGED <<reconnect_attempts, delay, video_queue, client>>
    /\ UNCHANGED <<target_language, voice, audio_enabled>>
    /\ UNCHANGED recvFixed
    /\ classification' = "none"
    /\ UNCHANGED offVars

\* asyncio.wait_for raises TimeoutError after WEBSOCKET_TIMEOUT seconds; the
\* while loop's else clause does not catch it, the except branch at 307 does
Timeout ==
    /\ pc = "recv" /\ websocket_active
    /\ HandleException(TimeoutError, clients)
    /\ wire' = <<>>
    /\ UNCHANGED <<target_language, voice, audio_enabled>>
    /\ UNCHANGED recvFixed
    /\ UNCHANGED offVars

\* a binary frame as the loop reads it: no bytes at all, or the first byte
\* (data[0]) and the bytes after it (data[1:])
UnknownTags == {2}

BinaryFrames ==
    {<<>>} \cup {<<0, d>> : d \in AudioPayloads}
           \cup {<<1, d>> : d \in VideoPayloads}
           \cup {<<t, d>> : t \in UnknownTags, d \in AudioPayloads}

stream_type_low_bit(data) == data[1] % 2

stream_type(data) == data[1]

content(data) == data[2]

\* lines 250-268
RecvBinary(data) ==
    IF Len(data) = 0 THEN RecvIgnored("empty_bytes")
    ELSE IF stream_type(data) = 0 THEN RecvAudio(content(data))
    ELSE IF stream_type(data) = 1 THEN RecvVideo(content(data))
    ELSE RecvIgnored("unknown_tag")

\* the text frames among the ignored ones
IgnoredTextFrames == {"pong", "bad_json", "not_dict", "other_type"}

Receive ==
    \/ \E data \in BinaryFrames : RecvBinary(data)
    \/ \E kind \in IgnoredTextFrames : RecvIgnored(kind)
    \/ \E u \in SessionUpdates : RecvSessionUpdate(u[1], u[2], u[3])
    \/ RecvDisconnect
    \/ Timeout

(***************************************************************************)
(* The upstream service and handle_server_messages (246-347)               *)
(***************************************************************************)
\* the translation service (or the network) closes a client's transport
UpstreamClose(c, code) ==
    /\ clients[c].ws = "open"
    /\ clients' = [clients EXCEPT ![c].ws = "peer_closed", ![c].code = code]
    /\ wire' = <<>>
    /\ UNCHANGED <<pc, api_key, websocket_close_code, websocket_active,
                   client, target_language, voice, audio_enabled, osc_mute_control,
                   reconnect_attempts, delay, message_task, video_sender_task,
                   video_queue, connecting, mute_callback, mute_tasks>>
    /\ classification' = "none"
    /\ UNCHANGED <<heartbeat_task, offVars>>

\* close codes on which "async for message in self.ws" ends without raising
NormalClosure == {1000, 1001}

\* the reader finds the transport closed: the loop ends; ConnectionClosed is
\* raised for every closure but a normal one, and the except at 341 clears
\* the flag
ReaderConnectionClosed ==
    /\ message_task = "running"
    /\ clients[client].ws = "peer_closed"
    /\ clients' = [clients EXCEPT ![client].is_connected =
                      IF clients[client].code \in NormalClosure THEN @ ELSE FALSE]
    /\ message_task' = "done"
    /\ wire' = <<>>
    /\ UNCHANGED <<pc, api_key, websocket_close_code, websocket_active,
                   client, target_language, voice, audio_enabled, osc_mute_control,
                   reconnect_attempts, delay, video_sender_task, video_queue,
                   connecting, mute_callback, mute_tasks>>
    /\ classification' = "none"
    /\ UNCHANGED <<heartbeat_task, offVars>>

\* an upstream event fails to decode (json.loads raises): the except at 344
\* ends the loop and clears the flag; the transport stays open
ReaderDecodeFailure ==
    /\ message_task = "running"
    /\ clients[client].ws = "open"
    /\ clients' = [clients EXCEPT ![client].is_connected = FALSE]
    /\ message_task' = "done"
    /\ wire' = <<>>
    /\ UNCHANGED <<pc, api_key, websocket_close_code, websocket_active,
                   client, target_language, voice, audio_enabled, osc_mute_control,
                   reconnect_attempts, delay, video_sender_task, video_queue,
                   connecting, mute_callback, mute_tasks>>
    /\ classification' = "none"
    /\ UNCHANGED <<heartbeat_task, offVars>>

(***************************************************************************)
(* Upstream events with text (handle_server_messages 262-318), the text    *)
(* callback of the session (web_server.py 198-213) and the send tasks it   *)
(* schedules.                                                              *)
(***************************************************************************)
Texts == {"t1", "t2"}

TextEventTypes == {"response.audio_transcript.delta", "response.text.delta",
                   "response.output_text.delta",
                   "response.audio_transcript.done", "response.text.done"}

EventTypes == TextEventTypes \cup {"response.done", "session.updated"}

\* an upstream event: its type and the one payload key it carries
Events == [type : EventTypes, key : {"transcript", "delta", "text"},
           value : Texts \cup {""}]

\* event.get(k, "")
get(event, k) == IF event.key = k THEN event.value ELSE ""

\* the key each branch reads its text from
text_key(event_type) ==
    CASE event_type = "response.audio_transcript.delta" -> "transcript"
      [] event_type = "response.text.delta" -> "delta"
      [] event_type = "response.output_text.delta" -> "delta"
      [] event_type = "response.audio_transcript.done" -> "transcript"
      [] event_type = "response.text.done" -> "text"
      [] OTHER -> "none"

\* the branches that call send_osc_text(text, False): line 316 only
osc_final_types == {"response.text.done"}

\* on_text_received: nothing when the session is no longer active, else one
\* send task is created for the text
on_text_received(text) ==
    IF ~websocket_active
    THEN UNCHANGED text_tasks
    ELSE text_tasks' = Append(text_tasks,
                              [seq |-> Len(text_events) + 1, data |-> text])

\* the reader takes one event off the open transport
ReaderEvent(event) ==
    /\ message_task = "running"
    /\ clients[client].ws = "open" /\ clients[client].is_connected
    /\ LET text == get(event, text_key(event.type)) IN
       IF event.type \in TextEventTypes /\ text # ""
       THEN /\ Len(text_events) < MaxTexts
            /\ text_events' = Append(text_events, text)
            /\ osc_out' = IF event.type \in osc_final_types
                          THEN <<[text |-> text, ongoing |-> FALSE]>>
                          ELSE <<>>
            /\ on_text_received(text)
       ELSE /\ osc_out' = <<>>
            /\ UNCHANGED <<text_events, text_tasks>>
    /\ UNCHANGED client_rx
    /\ wire' = <<>>
    /\ classification' = "none"
    /\ UNCHANGED <<pc, api_key, websocket_close_code, websocket_active,
                   client, target_language, voice, audio_enabled, osc_mute_control,
                   reconnect_attempts, delay, message_task, video_sender_task,
                   video_queue, clients, connecting, mute_callback, mute_tasks>>
    /\ UNCHANGED <<heartbeat_task, pings, rmVars, fmtVars>>

\* created tasks started last first
run_order_reversed(tasks) == [i \in 1..Len(tasks) |-> tasks[Len(tasks) + 1 - i]]

\* the event loop starts the tasks create_task made in creation order
run_order(tasks) == tasks

\* the next send task runs: websocket.send_json hands the frame to the
\* client leg, or raises when the client is gone (the exception stays in
\* the task)
SendText ==
    /\ text_tasks # <<>>
    /\ \E sent \in BOOLEAN :
          client_rx' = IF sent THEN Append(client_rx, Head(run_order(text_tasks)))
                       ELSE client_rx
    /\ text_tasks' = Tail(run_order(text_tasks))
    /\ UNCHANGED <<text_events, osc_out>>
    /\ wire' = <<>>
    /\ classification' = "none"
    /\ UNCHANGED <<pc, api_key, websocket_close_code, websocket_active,
                   client, target_language, voice, audio_enabled, osc_mute_control,
                   reconnect_attempts, delay, message_task, video_sender_task,
                   video_queue, clients, connecting, mute_callback, mute_tasks>>
    /\ UNCHANGED <<heartbeat_task, pings, rmVars, fmtVars>>

(***************************************************************************)
(* Upstream events of a type no branch names (handle_server_messages       *)
(* 324-339). The event is a dict that has any of the keys "text" and       *)
(* "stash"; a string value is its leading space, if any, and the rest.     *)
(***************************************************************************)
OtherEventTypes == {"conversation.item.created"}

FieldValues == [lead : BOOLEAN, rest : {"", "t1"}]

OtherEvents ==
    [type : OtherEventTypes,
     fields : UNION {[K -> FieldValues] : K \in SUBSET {"text", "stash"}}]

\* the string a value stands for
str(v) == IF v.lead THEN " " \o v.rest ELSE v.rest

\* s.startswith(' ') and s[1:]
startswith_space(v) == v.lead

after_first(v) == v.rest

\* 'text' in event
has_key(event, k) == k \in DOMAIN event.fields

\* event['stash'] raises KeyError
raises_KeyError(event) == ~has_key(event, "stash")

\* lines 332-336
partial_result(event) ==
    LET stash == event.fields["stash"] IN
    IF startswith_space(stash)
      THEN str(event.fields["text"]) \o " ... [" \o after_first(stash) \o "]"
      ELSE str(event.fields["text"]) \o " ... [" \o str(stash) \o "]"

\* the reader takes one such event off the open transport: without "text"
\* nothing is done; a missing "stash" raises into the except at 344, which
\* clears is_connected and ends the loop; else the text with the stash in
\* brackets goes to send_osc_text as an ongoing message
ReaderOther(event) ==
    /\ message_task = "running"
    /\ clients[client].ws = "open" /\ clients[client].is_connected
    /\ IF ~has_key(event, "text")
         THEN /\ osc_out' = <<>>
              /\ UNCHANGED <<clients, message_task>>
         ELSE IF raises_KeyError(event)
         THEN /\ osc_out' = <<>>
              /\ clients' = [clients EXCEPT ![client].is_connected = FALSE]
              /\ message_task' = "done"
         ELSE /\ osc_out' = <<[text |-> partial_result(event), ongoing |-> TRUE]>>
              /\ UNCHANGED <<clients, message_task>>
    /\ UNCHANGED <<text_tasks, text_events, client_rx, pings>>
    /\ wire' = <<>>
    /\ classification' = "none"
    /\ UNCHANGED <<pc, api_key, websocket_close_code, websocket_active,
                   client, target_language, voice, audio_enabled, osc_mute_control,
                   reconnect_attempts, delay, video_sender_task,
                   video_queue, connecting, mute_callback, mute_tasks>>
    /\ UNCHANGED <<heartbeat_task, rmVars, fmtVars>>

(***************************************************************************)
(* stream_video_data_task (128-140) with send_image_frame (217-244)        *)
(***************************************************************************)
\* send_image_frame(frame) of client cl: the frame handed to ws.send, if any
\* (not connected: return; empty: ValueError; a closed transport: ws.send
\* raises; both exceptions are caught at 139 and the loop goes on)
send_image_frame(c, cl, frame) ==
    IF ~cl.is_connected THEN <<>>
    ELSE IF frame = "" THEN <<>>
    ELSE IF cl.ws = "open" THEN <<ImageMessage(c, frame)>>
    ELSE <<>>

DrainerStep ==
    /\ video_sender_task = "running"
    /\ video_queue # <<>>
    /\ video_queue' = Tail(video_queue)
    /\ IF Head(video_queue) = Sentinel
         THEN /\ video_sender_task' = "done"
              /\ wire' = <<>>
         ELSE /\ UNCHANGED video_sender_task
              /\ wire' = send_image_frame(client, clients[client], Head(video_queue))
    /\ UNCHANGED <<pc, api_key, websocket_close_code, websocket_active,
                   client, target_language, voice, audio_enabled, osc_mute_control,
                   reconnect_attempts, delay, message_task, clients, connecting,
                   mute_callback, mute_tasks>>
    /\ classification' = "none"
    /\ UNCHANGED <<heartbeat_task, offVars>>

(***************************************************************************)
(* The mute bridge: OSCManager._handle_mute_self (74-91) and               *)
(* handle_mute_change (108-122)                                            *)
(***************************************************************************)
\* a MuteSelf message arrives: a task running the registered callback is
\* created; with no callback registered the message is ignored
OscMuteSelf(mute_value) ==
    /\ Len(mute_tasks) < MaxMuteTasks
    /\ mute_tasks' = IF mute_callback # 0
                       THEN Append(mute_tasks, [cl |-> mute_callback, mute_value |-> mute_value])
                       ELSE mute_tasks
    /\ wire' = <<>>
    /\ UNCHANGED <<pc, api_key, websocket_close_code, websocket_active,
                   client, target_language, voice, audio_enabled, osc_mute_control,
                   reconnect_attempts, delay, message_task, video_sender_task,
                   video_queue, clients, connecting, mute_callback>>
    /\ classification' = "none"
    /\ UNCHANGED <<heartbeat_task, offVars>>

\* a handler that leaves a client alone once it is closed
handle_mute_change_client_if_connected(cl, mute_value) ==
    IF ~osc_mute_control \/ ~cl.is_connected THEN cl
    ELSE IF mute_value
      THEN IF pause_acts(cl) THEN [cl EXCEPT !.is_processing_audio = FALSE] ELSE cl
      ELSE [cl EXCEPT !.is_processing_audio = TRUE]

\* handle_mute_change(mute_value) on client object cl: the object afterwards
handle_mute_change_client(cl, mute_value) ==
    IF ~osc_mute_control THEN cl
    ELSE IF mute_value
      THEN IF pause_acts(cl) THEN [cl EXCEPT !.is_processing_audio = FALSE] ELSE cl
      ELSE [cl EXCEPT !.is_processing_audio = TRUE]

\* handle_mute_change(mute_value) on client c: what it hands to ws.send; a
\* ws.send that raises is swallowed by _send_silence (119)
handle_mute_change_sends(c, cl, mute_value) ==
    IF osc_mute_control /\ mute_value /\ pause_acts(cl)
       /\ send_silence_sends(cl) /\ cl.ws = "open"
      THEN <<AudioMessage(c, Silence)>>
      ELSE <<>>

\* the oldest handler task runs, up to its end or to the suspension in ws.send
HandleMuteChange ==
    /\ mute_tasks # <<>>
    /\ LET c == Head(mute_tasks).cl
           mute_value == Head(mute_tasks).mute_value
       IN  /\ mute_tasks' = Tail(mute_tasks)
           /\ clients' = Collect([clients EXCEPT ![c] = handle_mute_change_client(@, mute_value)],
                                 Refs(client, mute_callback, Tail(mute_tasks), connecting))
           /\ wire' = handle_mute_change_sends(c, clients[c], mute_value)
    /\ UNCHANGED <<pc, api_key, websocket_close_code, websocket_active,
                   client, target_language, voice, audio_enabled, osc_mute_control,
                   reconnect_attempts, delay, message_task, video_sender_task,
                   video_queue, connecting, mute_callback>>
    /\ classification' = "none"
    /\ UNCHANGED <<heartbeat_task, offVars>>

(***************************************************************************)
(* A ReconnectManager on its own: its methods called in any order with any *)
(* error code                                                              *)
(***************************************************************************)
RMShouldReconnect(error_code) ==
    /\ rm_op' = "should_reconnect"
    /\ rm_code' = error_code
    /\ rm_should' = should_reconnect(rm_attempts, error_code)
    /\ UNCHANGED <<rm_attempts, rm_delay>>
    /\ UNCHANGED <<sessionVars, downVars, fmtVars>>

RMGetReconnectDelay(error_code) ==
    /\ rm_op' = "get_reconnect_delay"
    /\ rm_code' = error_code
    /\ rm_delay' = get_reconnect_delay(rm_attempts, error_code)
    /\ UNCHANGED <<rm_attempts, rm_should>>
    /\ UNCHANGED <<sessionVars, downVars, fmtVars>>

RMIncrementAttempts ==
    /\ rm_attempts < MaxAttemptsRM
    /\ rm_op' = "increment_attempts"
    /\ rm_attempts' = increment_attempts(rm_attempts)
    /\ UNCHANGED <<rm_code, rm_should, rm_delay>>
    /\ UNCHANGED <<sessionVars, downVars, fmtVars>>

RMReset ==
    /\ rm_op' = "reset"
    /\ rm_attempts' = reset
    /\ UNCHANGED <<rm_code, rm_should, rm_delay>>
    /\ UNCHANGED <<sessionVars, downVars, fmtVars>>

NextRM ==
    \/ \E error_code \in QueryCodes : RMShouldReconnect(error_code)
    \/ \E error_code \in QueryCodes : RMGetReconnectDelay(error_code)
    \/ RMIncrementAttempts
    \/ RMReset

SpecRM == Init /\ [][NextRM]_vars

(***************************************************************************)
(* The session: the Supervisor, the reader and the drainer of its client,  *)
(* the mute bridge and the upstream service. The specifications after it   *)
(* run the same actions under a narrower environment.                      *)
(***************************************************************************)
Connect ==
    \/ \E e \in ConnectErrors : ConnectFail(e)
    \/ ConnectOpen
    \/ ConnectDone
    \/ \E code \in UpstreamCodes : ConfigureFail(code)

Supervisor == Accept \/ Connect \/ Receive \/ CloseReturned \/ SleepDone

Reader == ReaderConnectionClosed \/ ReaderDecodeFailure

MuteBridge == (\E mute_value \in BOOLEAN : OscMuteSelf(mute_value)) \/ HandleMuteChange

Upstream == \E c \in ClientIds, code \in UpstreamCodes : UpstreamClose(c, code)

ReaderEvents == \E event \in Events : ReaderEvent(event)

ReaderOthers == \E event \in OtherEvents : ReaderOther(event)

\* send_heartbeat (142-151): after each sleep of HEARTBEAT_INTERVAL seconds
\* websocket.send_text("ping") hands a frame to the client connection
HeartbeatPing ==
    /\ heartbeat_task = "running"
    /\ pings < MaxPings
    /\ pings' = pings + 1
    /\ UNCHANGED <<sessionVars, rmVars, fmtVars>>
    /\ UNCHANGED <<text_tasks, text_events, client_rx, osc_out>>

\* send_text raises on a client connection that is gone: the except branch
\* logs and breaks out of the loop, the task is done
HeartbeatFail ==
    /\ heartbeat_task = "running"
    /\ heartbeat_task' = "done"
    /\ wire' = <<>>
    /\ classification' = "none"
    /\ UNCHANGED <<pc, api_key, websocket_close_code, websocket_active, client,
                   target_language, voice, audio_enabled, osc_mute_control,
                   reconnect_attempts, delay, message_task, video_sender_task,
                   video_queue, clients, connecting, mute_callback, mute_tasks>>
    /\ UNCHANGED offVars

Heartbeat == HeartbeatPing \/ HeartbeatFail

Next ==
    \/ Supervisor \/ Reader \/ DrainerStep \/ MuteBridge \/ Upstream
    \/ ReaderEvents \/ ReaderOthers \/ SendText \/ OscManager \/ Heartbeat

Spec == Init /\ [][Next]_vars

(***************************************************************************)
(* The session without the mute bridge: client frames of every kind, the   *)
(* upstream service, errors, reconnection and teardown.                    *)
(***************************************************************************)
NextRelay == Supervisor \/ Reader \/ DrainerStep \/ Upstream

SpecRelay == Init /\ [][NextRelay]_vars

(***************************************************************************)
(* The session of a client that sends audio only, with mute signals        *)
(* arriving at any time.                                                   *)
(***************************************************************************)
ReceiveAudio ==
    \/ \E data \in AudioPayloads : RecvAudio(data)
    \/ RecvDisconnect
    \/ Timeout

NextMute ==
    \/ Accept \/ Connect \/ ReceiveAudio \/ CloseReturned \/ SleepDone
    \/ Reader \/ DrainerStep \/ Upstream \/ MuteBridge

SpecMute == Init /\ [][NextMute]_vars

(***************************************************************************)
(* The session of a client that sends audio only, with the upstream events *)
(* that carry text and the send tasks of the text callback.                *)
(***************************************************************************)
NextText ==
    \/ Accept \/ Connect \/ ReceiveAudio \/ CloseReturned \/ SleepDone
    \/ Reader \/ Upstream \/ ReaderEvents \/ SendText

SpecText == Init /\ [][NextText]_vars

(***************************************************************************)
(* The session of a client that sends audio only, with the heartbeat task. *)
(***************************************************************************)
NextBeat ==
    \/ Accept \/ Connect \/ ReceiveAudio \/ CloseReturned \/ SleepDone
    \/ Reader \/ DrainerStep \/ Upstream \/ Heartbeat

SpecBeat == Init /\ [][NextBeat]_vars

(***************************************************************************)
(* The session of a client that sends audio only, with upstream events of  *)
(* types the reader does not name; every event is well-formed JSON.        *)
(***************************************************************************)
NextOther ==
    \/ Accept \/ Connect \/ ReceiveAudio \/ CloseReturned \/ SleepDone
    \/ ReaderConnectionClosed \/ Upstream \/ ReaderOthers

SpecOther == Init /\ [][NextOther]_vars

(***************************************************************************)
(* The session without the mute bridge under the scheduling the event loop *)
(* gives: every await of the Supervisor returns (the receive is bounded by *)
(* WEBSOCKET_TIMEOUT, connect, close and sleep end), the reader notices a  *)
(* closed transport, the drainer takes what is in the queue. What the      *)
(* client and the upstream service send is not constrained.                *)
(***************************************************************************)
FairRelay ==
    /\ SpecRelay
    /\ WF_vars(Supervisor)
    /\ WF_vars(ReaderConnectionClosed)
    /\ WF_vars(DrainerStep)

(***************************************************************************)
(* Properties                                                              *)
(***************************************************************************)
\* the session is Streaming: the Supervisor waits in the main receive loop
Streaming == pc = "recv"

\* a step that takes the Supervisor into its except branch
ErrorStep ==
    \/ \E e \in ConnectErrors : ConnectFail(e)
    \/ \E code \in UpstreamCodes : ConfigureFail(code)
    \/ Timeout
    \/ \E data \in AudioPayloads : RecvAudio(data) /\ pc' # pc

\* ... and whose classification is retry / give-up
RetryStep == ErrorStep /\ pc' # "done"

GiveUpStep == ErrorStep /\ pc' = "done"

ConnectedClients == {c \in ClientIds : clients[c].is_connected}

\* the session configuration as the upstream service is told it
SentConfig(cl) == [ConfigMessage(0, cl) EXCEPT !.cl = 0]

\* client audio payloads / silence blocks among the frames of a step
ClientAudio(w) ==
    SelectSeq(w, LAMBDA m : m.type = "input_audio_buffer.append" /\ m.audio # Silence)

SilenceBlocks(w) ==
    SelectSeq(w, LAMBDA m : m.type = "input_audio_buffer.append" /\ m.audio = Silence)

\* C1: when the receive timeout expires, the Supervisor keeps waiting in the
\* receive loop with the same upstream client: no classification is made
\* (the attempt counter and the client are untouched) and the session stays
\* active.
C1_TimeoutRewaits ==
    [][Timeout => /\ pc' = "recv"
                  /\ websocket_active'
                  /\ client' = client
                  /\ clients'[client] = clients[client]
                  /\ reconnect_attempts' = reconnect_attempts]_vars

\* C2: a client re-created after a failure is configured as the client it
\* replaces was configured just before the failure (the previous client is
\* the one the registered mute callback still refers to): the same target
\* language, voice and output modalities are announced upstream.
C2_RecreatedWithCurrentConfig ==
    [][(pc = "connect" /\ pc' = "configuring" /\ mute_callback # 0)
          => SentConfig(clients'[connecting']) = SentConfig(clients[mute_callback])]_vars

C2_Witness ==
    /\ pc = "configuring" /\ mute_callback # 0
    /\ clients[mute_callback].target_language = "ja"
    /\ clients[connecting].target_language = "en"

\* C3: once the upstream read loop has ended while the session is Streaming,
\* the Supervisor eventually leaves Streaming (by an Error transition); the
\* session does not stay in Streaming for ever.
C3_ReaderEndSurfaces ==
    (Streaming /\ message_task = "done") ~> ~Streaming

C3_Witness ==
    /\ Streaming /\ message_task = "done"
    /\ ~clients[client].is_connected
    /\ clients[client].ws = "open"

\* C4: a step that classifies an error as give-up closes the client
\* connection with a close code, and a terminated session stays terminated.
C4_GiveUpClosesClientLeg ==
    [][/\ GiveUpStep => websocket_close_code' # 0
       /\ pc = "done" => pc' = "done"]_vars

C4_Witness ==
    /\ pc = "done" /\ api_key
    /\ reconnect_attempts = MAX_RECONNECT_ATTEMPTS
    /\ websocket_close_code = 0

\* C5: should_reconnect answers retry exactly when the attempt counter is
\* below 5 and the code is one of 1006, 1011, 1012, 1013, 1014, 1015; at 5
\* attempts and more, and for any other or a missing code, it answers give-up.
C5_ShouldReconnect ==
    rm_op = "should_reconnect" =>
        (rm_should <=> (rm_attempts < 5
                        /\ rm_code \in {1006, 1011, 1012, 1013, 1014, 1015}))

C5_Witness ==
    rm_op = "should_reconnect" /\ rm_attempts = 5 /\ rm_code = 1011 /\ ~rm_should

\* C6: get_reconnect_delay answers 0 for code 1011 at every attempt count and
\* min(1 * 2^attempt, 30) for every other code: 1 at attempt 0, 8 at attempt
\* 3, 30 at attempt 10.
C6_ReconnectDelay ==
    rm_op = "get_reconnect_delay" =>
        /\ rm_code = 1011 => rm_delay = 0
        /\ rm_code # 1011 =>
              /\ rm_delay = IF 2^rm_attempts < 30 THEN 2^rm_attempts ELSE 30
              /\ rm_attempts = 0 => rm_delay = 1
              /\ rm_attempts = 3 => rm_delay = 8
              /\ rm_attempts = 10 => rm_delay = 30

C6_Witness ==
    rm_op = "get_reconnect_delay" /\ rm_attempts = 10 /\ rm_code = 1006 /\ rm_delay = 30

\* C7: the attempt counter of a session is always between 0 and 5 and is 0
\* whenever the session is Streaming; a step changes it only by +1, when it
\* classifies an error as retry, or to 0, when an upstream connection has
\* succeeded.
C7_AttemptCounter ==
    /\ [](/\ reconnect_attempts \in 0..5
          /\ Streaming => reconnect_attempts = 0)
    /\ [][/\ RetryStep => reconnect_attempts' = reconnect_attempts + 1
          /\ ConnectDone => reconnect_attempts' = 0
          /\ reconnect_attempts' # reconnect_attempts => RetryStep \/ ConnectDone]_vars

\* the counter at the ceiling, the Supervisor about to connect once more
C7_Witness ==
    reconnect_attempts = 5 /\ pc = "connect" /\ websocket_active

\* C8: at most one client object is marked connected at any time; a client is
\* created only while the Supervisor holds none, and the Supervisor lets go
\* of the client it holds only after closing it.
C8_AtMostOneConnected ==
    /\ [](Cardinality(ConnectedClients) <= 1)
    /\ [][/\ (connecting = 0 /\ connecting' # 0) => client = 0
          /\ (client # 0 /\ client' # client) =>
                (~clients[client].is_connected /\ clients[client].ws = "closed")]_vars

\* a closed client is still referred to while the client that replaces it
\* is connected
C8_Witness ==
    \E c, d \in ClientIds :
        /\ c # d
        /\ clients[c].ws = "closed"
        /\ clients[d].is_connected /\ clients[d].ws = "open"

\* C9: a client audio payload is handed to the upstream transport only in the
\* step in which it arrives, and only if the client is then connected and
\* forwarding: a frame that arrives while forwarding is suspended or the
\* client is not connected is not sent, then or later.
C9_SuspendedAudioDropped ==
    [][ClientAudio(wire') # <<>> =>
          /\ Streaming
          /\ clients[client].is_connected
          /\ clients[client].is_processing_audio
          /\ \A i \in DOMAIN ClientAudio(wire') : ClientAudio(wire')[i].cl = client]_vars

\* the Supervisor takes client frames while forwarding is suspended
C9_Witness ==
    /\ Streaming /\ websocket_active
    /\ clients[client].is_connected /\ clients[client].ws = "open"
    /\ ~clients[client].is_processing_audio

\* C10: a step sends at most one silence block, and sends it exactly when a
\* client goes from forwarding to suspended (with the client connected and
\* its transport open it is sent): a mute=true handled while already
\* suspended sends nothing. A mute=false handled while the client forwards
\* changes nothing and sends nothing.
C10_MuteIdempotent ==
    [][/\ Len(SilenceBlocks(wire')) <= 1
       /\ \A c \in ClientIds :
            LET suspends == clients[c].is_processing_audio /\ ~clients'[c].is_processing_audio
            IN  /\ (SilenceBlocks(wire') # <<>> /\ SilenceBlocks(wire')[1].cl = c) => suspends
                /\ (suspends /\ clients[c].is_connected /\ clients[c].ws = "open")
                      => wire' = <<AudioMessage(c, Silence)>>
       /\ (/\ mute_tasks # <<>> /\ mute_tasks' = Tail(mute_tasks)
           /\ ~Head(mute_tasks).mute_value
           /\ clients[Head(mute_tasks).cl].is_processing_audio)
             => /\ wire' = <<>>
                /\ \A c \in ClientIds : clients'[c] \in {clients[c], NoClient}
                /\ UNCHANGED <<pc, client, websocket_active, mute_callback,
                               message_task, video_sender_task, video_queue>>]_vars

\* the first mute=true has sent the silence block and a second mute=true for
\* the same client waits to be handled
C10_Witness ==
    /\ mute_tasks # <<>>
    /\ Head(mute_tasks).mute_value
    /\ wire = <<AudioMessage(Head(mute_tasks).cl, Silence)>>
    /\ clients[Head(mute_tasks).cl].is_connected

\* C11: once the session has been torn down the mute-handler slot is empty;
\* from then on no handler task is scheduled any more, and a step that does
\* not run a handler scheduled before the teardown changes no client object.
C11_NoHandlerAfterTeardown ==
    /\ [](pc = "done" => mute_callback = 0)
    /\ [][pc = "done" =>
             /\ Len(mute_tasks') <= Len(mute_tasks)
             /\ mute_tasks' = mute_tasks => clients' = clients]_vars

\* a session that had registered its handler has been torn down
C11_Witness ==
    /\ pc = "done" /\ api_key
    /\ client # 0 /\ clients[client].ws = "closed"
    /\ mute_callback = 0

\* the step leaves the session as it is: same position, same client, no
\* classification, nothing torn down
SessionGoesOn ==
    /\ pc' = pc /\ websocket_active' = websocket_active
    /\ client' = client /\ clients' = clients
    /\ classification' = "none"
    /\ reconnect_attempts' = reconnect_attempts
    /\ message_task' = message_task /\ video_sender_task' = video_sender_task

Forwarding(cl) == cl.is_connected /\ cl.is_processing_audio /\ cl.ws = "open"

\* C13: enqueueing a video payload completes within the receive step and
\* sends nothing upstream in it; in every Streaming state the Supervisor can
\* take an audio frame, whatever the video queue holds, and a forwarded audio
\* frame is handed to the transport in the step in which it arrives.
C13_VideoNeverDelaysAudio ==
    /\ []((Streaming /\ websocket_active /\ clients[client].ws = "open")
             => ENABLED (\E d \in AudioPayloads : RecvAudio(d)))
    /\ [][/\ (\E d \in VideoPayloads : RecvVideo(d)) => (pc' = "recv" /\ wire' = <<>>)
          /\ \A d \in AudioPayloads :
                (RecvAudio(d) /\ Forwarding(clients[client]))
                    => wire' = <<AudioMessage(client, d)>>]_vars

\* an audio frame has just been forwarded while a video frame waits in the queue
C13_Witness ==
    /\ Streaming /\ VideoFrames(video_queue) # <<>>
    /\ wire = <<AudioMessage(client, "a1")>>

\* C14: a non-empty binary frame with first byte 0 goes to audio forwarding
\* and not into the video queue; with first byte 1 its remaining bytes are
\* appended to the video queue and nothing is sent; with any other first
\* byte nothing is sent, nothing is enqueued and the session stays as it is.
C14_BinaryDispatch ==
    [][\A data \in {f \in BinaryFrames : Len(f) > 0} : RecvBinary(data) =>
          /\ data[1] = 0 =>
                /\ VideoFrames(video_queue') = VideoFrames(video_queue)
                /\ wire' \in {<<>>, <<AudioMessage(client, data[2])>>}
                /\ Forwarding(clients[client]) => wire' = <<AudioMessage(client, data[2])>>
          /\ data[1] = 1 =>
                /\ video_queue' = Append(video_queue, data[2])
                /\ wire' = <<>>
          /\ data[1] \notin {0, 1} =>
                /\ wire' = <<>>
                /\ video_queue' = video_queue
                /\ SessionGoesOn]_vars

\* a video payload sits in the queue, nothing was sent in the step
C14_Witness ==
    /\ Streaming /\ video_queue = <<"v1">> /\ wire = <<>>
    /\ video_sender_task = "running"

\* C15: a text frame that is no JSON, no JSON object or of an unrecognised
\* type, a binary frame with an unknown tag, and a video frame with an empty
\* payload (when it is enqueued and when the drainer takes it) leave the
\* session running with the same client: no classification, no teardown.
C15_MalformedInputIgnored ==
    [][/\ \A kind \in {"bad_json", "not_dict", "other_type", "unknown_tag"} :
             RecvIgnored(kind) => SessionGoesOn
       /\ \A t \in UnknownTags, d \in AudioPayloads : RecvBinary(<<t, d>>) => SessionGoesOn
       /\ RecvBinary(<<1, "">>) => SessionGoesOn
       /\ (DrainerStep /\ Head(video_queue) = "") => (SessionGoesOn /\ wire' = <<>>)]_vars

\* an empty video payload waits for the drainer
C15_Witness ==
    /\ Streaming /\ websocket_active
    /\ video_queue # <<>> /\ Head(video_queue) = ""
    /\ video_sender_task = "running"

\* C16: a disconnect notification takes the session to its end in one step
\* with no classification (should_reconnect is not called), the attempt
\* counter and the delay untouched, the tasks stopped and the client closed;
\* an ended session stays ended and creates no upstream client.
C16_DisconnectSkipsReconnect ==
    [][/\ RecvDisconnect =>
             /\ pc' = "done" /\ ~websocket_active'
             /\ classification' = "none"
             /\ reconnect_attempts' = reconnect_attempts /\ delay' = delay
             /\ connecting' = 0 /\ mute_callback' = 0
             /\ message_task' # "running" /\ video_sender_task' # "running"
             /\ ~clients'[client].is_connected /\ clients'[client].ws = "closed"
       /\ pc = "done" =>
             /\ pc' = "done" /\ connecting' = 0 /\ classification' = "none"
             /\ \A c \in ClientIds : clients[c].ws = "none" => clients'[c].ws = "none"]_vars

\* the session has ended with no classification made and the counter at 0
C16_Witness ==
    /\ pc = "done" /\ api_key /\ ~websocket_active
    /\ classification = "none" /\ reconnect_attempts = 0
    /\ client # 0 /\ clients[client].ws = "closed" /\ wire = <<>>

\* C17: a session.update on an open transport changes, of the client's
\* fields, only those it gives among target language, voice and
\* audio-enabled, and sends one configuration message with the resulting
\* values; one that gives only target_language "ja" makes the language "ja"
\* and leaves voice and audio-enabled as they were.
C17_UpdateSessionMerges ==
    [][\A u \in SessionUpdates :
          (RecvSessionUpdate(u[1], u[2], u[3]) /\ clients[client].ws = "open") =>
             LET old == clients[client]
                 new == clients'[client]
             IN  /\ new = [old EXCEPT
                             !.target_language = IF u[1] = "None" THEN old.target_language ELSE u[1],
                             !.voice = IF u[2] = "None" THEN old.voice ELSE u[2],
                             !.audio_enabled = IF u[3] = "None" THEN old.audio_enabled ELSE u[3]]
                 /\ Len(wire') = 1
                 /\ wire'[1].type = "session.update"
                 /\ wire'[1].language = new.target_language
                 /\ wire'[1].modalities =
                       IF new.audio_enabled \in {"None", "False"} THEN "text" ELSE "text+audio"
                 /\ wire'[1].voice =
                       IF new.audio_enabled \in {"None", "False"} THEN "None" ELSE new.voice
                 /\ u = <<"ja", "None", "None">> =>
                       /\ new.target_language = "ja" /\ wire'[1].language = "ja"
                       /\ new.voice = old.voice
                       /\ new.audio_enabled = old.audio_enabled]_vars

\* the language has been changed to "ja", voice and audio-enabled are the
\* ones the session started with, and the configuration was re-sent
C17_Witness ==
    /\ Streaming /\ Len(wire) = 1
    /\ wire[1].type = "session.update" /\ wire[1].cl = client
    /\ wire[1].language = "ja" /\ wire[1].voice = "Cherry"
    /\ wire[1].modalities = "text+audio"
    /\ clients[client].target_language = "ja"

C18_FinalTextToOverlay ==
    [][\A event \in Events :
          (/\ ReaderEvent(event)
           /\ event.type \in {"response.audio_transcript.done", "response.text.done"}
           /\ get(event, text_key(event.type)) # "")
          => /\ text_events' = Append(text_events, get(event, text_key(event.type)))
             /\ osc_out' = <<[text |-> get(event, text_key(event.type)),
                              ongoing |-> FALSE]>>]_vars

\* C19: the text of the chat box message has at most 144 characters, line
\* breaks counted, with and without line breaks enabled; truncating it again
\* returns it unchanged, and so does truncating the truncated input.
C19_OverlayTextBounded ==
    chatbox.sent =>
        /\ Len(chatbox.text) <= MAX_LENGTH
        /\ truncate_text(chatbox.text, MAX_LENGTH) = chatbox.text
        /\ LET once == truncate_text(osc_text, MAX_LENGTH)
           IN  Len(once) <= MAX_LENGTH /\ truncate_text(once, MAX_LENGTH) = once

\* a text over the limit was sent with line breaks enabled, and what was
\* sent holds a line break
C19_Witness ==
    /\ chatbox.sent /\ line_breaks_enabled
    /\ Len(osc_text) > MAX_LENGTH
    /\ \E i \in 1..Len(chatbox.text) : chatbox.text[i] = "\n"

\* the last position of a text that holds a letter, 0: there is none
last_letter(text) ==
    CHOOSE k \in 0..Len(text) :
        /\ (k = 0 \/ text[k] \notin SENTENCE_ENDERS \cup Whitespace)
        /\ \A j \in (k + 1)..Len(text) : text[j] \in SENTENCE_ENDERS \cup Whitespace

\* the position of the ender before the final sentence, 0: there is none
final_sentence_start(text) ==
    CHOOSE s \in 0..last_letter(text) :
        /\ (s = 0 \/ text[s] \in SENTENCE_ENDERS)
        /\ \A j \in (s + 1)..last_letter(text) : text[j] \notin SENTENCE_ENDERS

\* the final sentence of a text: from after the last ender that has a letter
\* behind it to the end, without the whitespace around it
final_sentence(text) ==
    IF last_letter(text) = 0 THEN <<>>
    ELSE strip(From(text, final_sentence_start(text) + 1))

\* a text of more than one sentence
multi_sentence(text) == last_letter(text) # 0 /\ final_sentence_start(text) # 0

\* C20: when a text of more than one sentence and more than 144 characters
\* is truncated, the final sentence of the result is the final sentence of
\* the text.
C20_FinalSentenceKept ==
    (/\ chatbox.sent /\ ~line_breaks_enabled
     /\ Len(osc_text) > MAX_LENGTH
     /\ multi_sentence(osc_text))
    => final_sentence(chatbox.text) = final_sentence(osc_text)

\* a text of more than one sentence whose final sentence fits into the limit
\* was truncated to nothing
C20_Witness ==
    /\ chatbox.sent /\ ~line_breaks_enabled
    /\ multi_sentence(osc_text)
    /\ Len(final_sentence(osc_text)) <= MAX_LENGTH
    /\ chatbox.text = <<>>

\* the delimiter occurrence C21 names: the last "..." when the text holds
\* one, else the last CJK ellipsis
named_candidate(text) ==
    IF rfind(text, Dots) # 0
    THEN [idx |-> rfind(text, Dots), delim |-> Dots]
    ELSE [idx |-> rfind(text, CJKEllipsis), delim |-> CJKEllipsis]

\* C21: the split is made at the last "...", at the last CJK ellipsis only
\* when the text holds no "..."; it is made only when the text before and the
\* text after the candidate are non-empty after trimming, and then gives the
\* trimmed texts; otherwise the result is none.
C21_SplitAtLastDelimiter ==
    split_res.state # "uncalled" =>
        LET c == named_candidate(osc_text)
            before == SubSeq(osc_text, 1, c.idx - 1)
            after == From(osc_text, c.idx + Len(c.delim))
        IN  IF c.idx # 0 /\ strip(before) # <<>> /\ strip(after) # <<>>
            THEN split_res = [state |-> "split", confirmed |-> rstrip(before),
                              delim |-> c.delim, unconfirmed |-> strip(after)]
            ELSE split_res = NoSplit

\* a text that holds "..." was split at a CJK ellipsis
C21_Witness ==
    /\ split_res.state = "split"
    /\ split_res.delim = CJKEllipsis
    /\ rfind(osc_text, Dots) # 0

IsInk(ch) == ch \notin Whitespace

\* a text without its whitespace
ink(text) == SelectSeq(text, IsInk)

HasLineBreak(text) == \E i \in 1..Len(text) : text[i] = "\n"

SourceOf(text, out, p) ==
    CHOOSE i \in 1..Len(text) :
        /\ text[i] \notin Whitespace
        /\ Len(ink(SubSeq(text, 1, i))) = Len(ink(SubSeq(out, 1, p - 1)))

\* the positions of the marks of a text that have a line break directly
\* after them in its formatting
BrokenAfter(text, out) ==
    {SourceOf(text, out, p) : p \in {q \in 2..Len(out) : out[q] = "\n"}}

InDots(text, i) ==
    \E j \in {i - 2, i - 1, i} : j >= 1 /\ j + 2 <= Len(text) /\ SubSeq(text, j, j + 2) = Dots

C24_LeavingStreamingCleansUp ==
    [][(Streaming /\ ~Streaming') =>
          /\ video_queue' = Append(video_queue, Sentinel)
          /\ message_task' # "running"
          /\ video_sender_task' # "running"
          /\ ~clients'[client].is_connected
          /\ clients'[client].ws = "closed"]_vars

\* C24, amended: a step out of Streaming that retries puts the sentinel on
\* the video queue; a step out of Streaming that ends the session (give-up,
\* client disconnect) leaves the video queue as it is; both leave neither
\* the reader nor the drainer running and close the upstream connection.
C24_SentinelOnRetryOnly ==
    [][(Streaming /\ ~Streaming') =>
          /\ pc' # "done" => video_queue' = Append(video_queue, Sentinel)
          /\ pc' = "done" => video_queue' = video_queue
          /\ message_task' # "running"
          /\ video_sender_task' # "running"
          /\ ~clients'[client].is_connected
          /\ clients'[client].ws = "closed"]_vars

\* the session has ended from Streaming, the drainer was cancelled, and no
\* sentinel was ever put on the queue
C24_Witness ==
    /\ pc = "done" /\ client # 0
    /\ video_sender_task = "cancelled"
    /\ Sentinels(video_queue) = <<>>
    /\ reconnect_attempts = 0

\* C25: while the session is Streaming, after a reconnect as before it, a
\* video drainer is running, so that what the client puts on the video queue
\* is taken off it and forwarded.
C25_DrainerRunsWhileStreaming ==
    (Streaming /\ websocket_active) => video_sender_task = "running"

\* the session is Streaming on an open upstream connection, a video payload
\* waits in the queue, and the drainer has ended
C25_Witness ==
    /\ Streaming /\ websocket_active
    /\ clients[client].is_connected /\ clients[client].ws = "open"
    /\ video_sender_task = "done"
    /\ video_queue = <<"v1">>

\* the three ways the heartbeat task changes state
HeartbeatStarts ==
    heartbeat_task = "none" /\ heartbeat_task' = "running" /\ pc = "accept"

HeartbeatCancelled ==
    /\ heartbeat_task = "running" /\ heartbeat_task' = "cancelled"
    /\ pc # "done" /\ pc' = "done"

HeartbeatEnds ==
    /\ heartbeat_task = "running" /\ heartbeat_task' = "done"
    /\ pc' = pc /\ classification' = "none"

\* C26: the heartbeat task is started once per session (at the start, never
\* again), no retry of the Supervisor (upstream error, close of the failed
\* client, backoff, reconnect) changes it, and it is cancelled only by the
\* step that ends the session; besides that it only ends by itself when a
\* ping cannot be handed to the client connection.
C26_HeartbeatLifetime ==
    [][/\ heartbeat_task' # heartbeat_task =>
            HeartbeatStarts \/ HeartbeatCancelled \/ HeartbeatEnds
       /\ classification' = "retry" => heartbeat_task' = heartbeat_task
       /\ pc \in {"closing", "backoff", "connect", "configuring"} /\ pc' # "done" =>
            heartbeat_task' = heartbeat_task \/ HeartbeatEnds]_vars

\* the heartbeat has pinged, the upstream failed, and the session streams
\* again with the heartbeat task still running
C26_Witness ==
    /\ Streaming /\ heartbeat_task = "running"
    /\ pings = MaxPings
    /\ Sentinels(video_queue) # <<>>

\* the send of a client audio frame raises on the upstream connection the
\* peer has closed with this code, while the session is Streaming
StreamingFails(code) ==
    /\ Streaming
    /\ clients[client].ws # "open" /\ clients[client].code = code
    /\ \E data \in AudioPayloads : RecvAudio(data)
    /\ pc' # pc

\* C27: a failure with a retryable code that follows a successful connection
\* is always retried, whatever number of retries the session has made before:
\* the counter is 0 while Streaming and 1 after the failure, and the session
\* stays active. After code 1011 the delay is 0 and the Supervisor goes from
\* the close of the failed client straight to the next connect. A give-up on
\* a retryable code happens only with the counter at the ceiling, which is
\* never the case while Streaming.
C27_CeilingCountsConsecutive ==
    /\ [][\A code \in RetryableCodes :
            StreamingFails(code) =>
                /\ reconnect_attempts = 0
                /\ classification' = "retry" /\ websocket_active'
                /\ reconnect_attempts' = 1
                /\ pc' = "closing"
                /\ code = 1011 => delay' = 0]_vars
    /\ [][(pc = "closing" /\ delay = 0 /\ pc' # pc) => pc' = "connect"]_vars
    /\ [][(classification' = "give_up" /\ reconnect_attempts < MAX_RECONNECT_ATTEMPTS) =>
            ~(\E code \in RetryableCodes : StreamingFails(code))]_vars

\* the session has been connected and has failed several times; it has just
\* failed with code 1011 again and is about to reconnect without delay, with
\* the counter at 1
C27_Witness ==
    /\ pc = "closing" /\ websocket_active
    /\ client # 0 /\ clients[client].ws = "closed"
    /\ reconnect_attempts = 1 /\ delay = 0
    /\ Len(Sentinels(video_queue)) = MaxSentinels

\* C28: the client the Supervisor holds after a (re)connect has audio
\* forwarding enabled, whatever the state of the client it replaces; the
\* forwarding flag of the Supervisor's client is cleared only by a handler
\* task that carries mute=true for that client, so until then its audio is
\* forwarded without any mute=false signal.
C28_RecreatedClientForwards ==
    [][/\ ConnectOpen => clients'[connecting'].is_processing_audio
       /\ ConnectDone => (client' # 0 /\ clients'[client'].is_processing_audio)
       /\ (/\ client # 0 /\ client' = client
           /\ clients[client].is_processing_audio
           /\ ~clients'[client].is_processing_audio) =>
               /\ mute_tasks # <<>>
               /\ Head(mute_tasks).cl = client /\ Head(mute_tasks).mute_value
               /\ mute_tasks' = Tail(mute_tasks)]_vars

\* the client that failed was suspended by mute=true and is still suspended
\* (a handler task scheduled before the reconnect holds it); the client that
\* replaced it has just forwarded an audio frame
C28_Witness ==
    /\ Streaming /\ wire = <<AudioMessage(client, "a1")>>
    /\ mute_tasks # <<>>
    /\ Head(mute_tasks).cl # client
    /\ ~clients[Head(mute_tasks).cl].is_processing_audio
    /\ clients[Head(mute_tasks).cl].ws = "closed"

\* C29: the delay of a retry is computed from the counter after its
\* increment: a retry that makes the counter k (1..5) on a code other than
\* 1011 sets the delay to min(2^k, 30) seconds, and that is the delay the
\* Supervisor sleeps; it is 2 s for the first retry and never 1 s.
C29_DelayAfterIncrement ==
    /\ [][/\ \A e \in ConnectErrors :
               (ConnectFail(e) /\ classification' = "retry" /\ error_code_of(e) # 1011) =>
                   delay' = Min(Pow(2, reconnect_attempts + 1), 30)
          /\ \A code \in UpstreamCodes \ {1011} :
               (ConfigureFail(code) /\ classification' = "retry") =>
                   delay' = Min(Pow(2, reconnect_attempts + 1), 30)
          /\ \A code \in UpstreamCodes \ {1011} :
               (StreamingFails(code) /\ classification' = "retry") => delay' = 2]_vars
    /\ [](pc = "backoff" =>
             /\ reconnect_attempts \in 1..5
             /\ delay = Min(Pow(2, reconnect_attempts), 30))
    /\ [](delay # 1)

\* the Supervisor sleeps before its fifth consecutive retry
C29_Witness ==
    pc = "backoff" /\ websocket_active /\ reconnect_attempts = 5 /\ delay = 30

\* from the close of the failed client to the next successful connect, in a
\* session that has registered a mute handler
ReconnectWindow ==
    /\ pc \in {"closing", "backoff", "connect", "configuring"}
    /\ mute_callback # 0

\* C30: a retry leaves the mute-handler slot as it is. In the window up to
\* the next successful connect the registered handler is bound to the closed
\* client and not to the one being connected; a signal in the window
\* schedules a handler for that closed client, and with mute control on a
\* handler carrying mute=true leaves the closed client's forwarding flag
\* cleared and hands nothing to the upstream transport.
C30_StaleHandlerInWindow ==
    /\ [](ReconnectWindow =>
             /\ ~clients[mute_callback].is_connected
             /\ clients[mute_callback].ws = "closed"
             /\ mute_callback # connecting)
    /\ [][/\ classification' = "retry" => mute_callback' = mute_callback
          /\ (ReconnectWindow /\ pc' # "recv" /\ pc' # "done") =>
                mute_callback' = mute_callback
          /\ (ReconnectWindow /\ OscMuteSelf(TRUE)) =>
                mute_tasks' = Append(mute_tasks, [cl |-> mute_callback, mute_value |-> TRUE])
          /\ (/\ ReconnectWindow /\ osc_mute_control /\ HandleMuteChange
              /\ Head(mute_tasks).cl = mute_callback /\ Head(mute_tasks).mute_value) =>
                /\ ~clients'[mute_callback].is_processing_audio
                /\ wire' = <<>>]_vars

\* the client failed while it was forwarding (a suspended client sends
\* nothing that could raise), and a handler has cleared its flag since
C30_Witness ==
    /\ ReconnectWindow /\ websocket_active /\ osc_mute_control
    /\ clients[mute_callback].ws = "closed"
    /\ ~clients[mute_callback].is_processing_audio
    /\ mute_tasks = <<>> /\ wire = <<>>

\* C31: when the reader takes an event of a type it does not name that has a
\* "text" field and no "stash" field, the event is dropped: nothing goes to
\* the chat box, the reader task keeps running and the client stays marked
\* connected.
C31_MissingStashDropped ==
    [][\A event \in OtherEvents :
          (/\ ReaderOther(event)
           /\ has_key(event, "text") /\ ~has_key(event, "stash")) =>
              /\ osc_out' = <<>>
              /\ message_task' = "running"
              /\ clients'[client].is_connected]_vars

\* the session is Streaming on an open upstream transport, and the reader
\* has ended and marked the client disconnected
C31_Witness ==
    /\ Streaming /\ websocket_active
    /\ clients[client].ws = "open" /\ ~clients[client].is_connected
    /\ message_task = "done"

=============================================================================
